---------------------------- MODULE Spec2Model ----------------------------
(***************************************************************************)
(* State-machine model of the translator page (src/app/page.tsx).          *)
(*                                                                         *)
(* The React component TranslatorPage is modelled by its state hooks       *)
(* (chats, currentChatId, inputText, isTranslating, sourceLang,            *)
(* targetLang), the localStorage slot "translation-chats", the             *)
(* millisecond clock read by Date.now(), and the handleTranslate calls     *)
(* that are suspended on their fetch.  One action stands for one event     *)
(* handler run together with the re-render and the effects it causes;      *)
(* the two effects that run on mount are separate steps, in the order      *)
(* React runs them.                                                        *)
(*                                                                         *)
(* JavaScript strings that the code slices, trims or builds are sequences  *)
(* of one-character strings; language codes and labels, which the page     *)
(* only compares and copies, are TLA+ strings.                             *)
(*                                                                         *)
(* Three specifications share the module: Spec, the page from its mount    *)
(* on; SpecSpeech, the mounted page's voice input (toggleListening and     *)
(* the callbacks of its SpeechRecognition sessions); SpecServer, the POST  *)
(* handler of the translation endpoint serving one request.                *)
(***************************************************************************)
EXTENDS Naturals, Sequences, FiniteSets

(***************************************************************************)
(* Bounds of the model.                                                    *)
(***************************************************************************)
\* Largest value of the millisecond clock.
MaxNow == 3
\* Largest number of threads held in the list.
MaxChats == 2
\* Largest number of messages in the list, all threads together.
MaxMsgs == 4
\* Largest number of handleTranslate calls suspended on their fetch.
MaxPending == 2

\* currentText.slice(0, 30)
TitleLen == 30

(***************************************************************************)
(* Strings.                                                                *)
(***************************************************************************)
\* The value null of `string | null`.  It is the empty sequence: like "",
\* it is falsy, and no id the page produces is empty.
null == <<>>

DigitChar == <<"0", "1", "2", "3", "4", "5", "6", "7", "8", "9">>

\* Number.prototype.toString() of a non-negative integer.
RECURSIVE ToString(_)
ToString(n) ==
    IF n < 10 THEN <<DigitChar[n + 1]>>
    ELSE ToString(n \div 10) \o <<DigitChar[(n % 10) + 1]>>

WhiteSpace == {" ", "\t", "\n"}

RECURSIVE TrimStart(_)
TrimStart(s) ==
    IF s # <<>> /\ Head(s) \in WhiteSpace THEN TrimStart(Tail(s)) ELSE s

RECURSIVE TrimEnd(_)
TrimEnd(s) ==
    IF s # <<>> /\ s[Len(s)] \in WhiteSpace
    THEN TrimEnd(SubSeq(s, 1, Len(s) - 1))
    ELSE s

\* String.prototype.trim()
Trim(s) == TrimEnd(TrimStart(s))

\* String.prototype.slice(0, n)
Slice0(s, n) == SubSeq(s, 1, IF Len(s) < n THEN Len(s) ELSE n)

Ellipsis == <<".", ".", ".">>

\* The placeholder title of a new thread, "New Translation".
NewTitle == <<"N","e","w"," ","T","r","a","n","s","l","a","t","i","o","n">>

\* The text of the fallback message (the source starts it with a warning
\* sign, which is left out here).
ErrorText ==
    <<"E","r","r","o","r",":"," ","C","o","u","l","d"," ","n","o","t"," ",
      "t","r","a","n","s","l","a","t","e","."," ","T","h","e"," ","f","r",
      "e","e"," ","A","P","I"," ","m","i","g","h","t"," ","b","e"," ","b",
      "u","s","y",".">>

(***************************************************************************)
(* The language table.  Labels are written in ASCII: Espanol for the       *)
(* Spanish label, Francais for the French one, Zhongwen, Hindi and Arabiya *)
(* for the labels in Chinese, Devanagari and Arabic script.                *)
(***************************************************************************)
LANGUAGES ==
    << [code |-> "en-US", name |-> "English", label |-> "English"],
       [code |-> "es-ES", name |-> "Spanish", label |-> "Espanol"],
       [code |-> "fr-FR", name |-> "French",  label |-> "Francais"],
       [code |-> "de-DE", name |-> "German",  label |-> "Deutsch"],
       [code |-> "zh-CN", name |-> "Chinese", label |-> "Zhongwen"],
       [code |-> "hi-IN", name |-> "Hindi",   label |-> "Hindi"],
       [code |-> "ar-SA", name |-> "Arabic",  label |-> "Arabiya"] >>

\* LANGUAGES.find(l => l.code === code) || LANGUAGES[dflt]
FindLanguage(code, dflt) ==
    LET hits == {i \in 1..Len(LANGUAGES) : LANGUAGES[i].code = code}
    IN  IF hits = {} THEN LANGUAGES[dflt]
        ELSE LANGUAGES[CHOOSE i \in hits : \A j \in hits : i <= j]

(***************************************************************************)
(* Inputs.                                                                 *)
(***************************************************************************)
\* A text longer than the title prefix, with white space in front.
LongText == <<" ">> \o [i \in 1..(TitleLen + 1) |-> "x"]

\* What the user types into the text box: white space only, or the text.
\* (The box is empty at first and after each submission.)
Texts == { <<" ">>, LongText }

\* The options the user picks in the two language selects, away from the
\* initial "en-US" and "fr-FR".
SourceChoices == {"es-ES"}
TargetChoices == {"de-DE"}

\* The translated texts the endpoint may return.
TranslatedTexts == { <<"B", "o", "n">> }

\* How a fetch may fail: the fetch rejects, the response is not 2xx, the
\* body is not JSON.
Failures == {"network", "status", "body"}

(***************************************************************************)
(* JSON.  A JSON text is modelled by the value it denotes, each string,    *)
(* number and array wrapped in a record of its own kind, so that           *)
(* JSON.stringify and JSON.parse are conversions and not the identity.     *)
(* The slot of localStorage holds:                                         *)
(*   type "absent"   no entry (getItem returns null)                       *)
(*   type "empty"    the empty string                                      *)
(*   type "garbage"  a text that is not JSON                               *)
(*   type "null", "number", "object", "string"                             *)
(*                   a JSON text denoting a value of that kind             *)
(*   type "array"    a JSON text denoting the array `items`                *)
(***************************************************************************)
Slot(type, items) == [type |-> type, items |-> items]

RECURSIVE MapMessagesToJson(_)
MapMessagesToJson(ms) ==
    IF ms = <<>> THEN <<>>
    ELSE <<[id        |-> [str |-> Head(ms).id],
            role      |-> [str |-> Head(ms).role],
            text      |-> [str |-> Head(ms).text],
            langLabel |-> [str |-> Head(ms).langLabel],
            langCode  |-> [str |-> Head(ms).langCode]]>>
         \o MapMessagesToJson(Tail(ms))

RECURSIVE MapChatsToJson(_)
MapChatsToJson(list) ==
    IF list = <<>> THEN <<>>
    ELSE <<[id        |-> [str |-> Head(list).id],
            title     |-> [str |-> Head(list).title],
            messages  |-> [arr |-> MapMessagesToJson(Head(list).messages)],
            createdAt |-> [num |-> Head(list).createdAt]]>>
         \o MapChatsToJson(Tail(list))

\* JSON.stringify(chats)
Stringify(list) == Slot("array", MapChatsToJson(list))

RECURSIVE MapMessagesFromJson(_)
MapMessagesFromJson(js) ==
    IF js = <<>> THEN <<>>
    ELSE <<[id        |-> Head(js).id.str,
            role      |-> Head(js).role.str,
            text      |-> Head(js).text.str,
            langLabel |-> Head(js).langLabel.str,
            langCode  |-> Head(js).langCode.str]>>
         \o MapMessagesFromJson(Tail(js))

RECURSIVE MapChatsFromJson(_)
MapChatsFromJson(js) ==
    IF js = <<>> THEN <<>>
    ELSE <<[id        |-> Head(js).id.str,
            title     |-> Head(js).title.str,
            messages  |-> MapMessagesFromJson(Head(js).messages.arr),
            createdAt |-> Head(js).createdAt.num]>>
         \o MapChatsFromJson(Tail(js))

\* Parse with a slip: the threads come back without their messages.
ParseWithoutMessages(saved) ==
    [type |-> saved.type,
     list |-> IF saved.type = "array"
              THEN [i \in 1..Len(saved.items) |->
                      [MapChatsFromJson(saved.items)[i]
                          EXCEPT !.messages = <<>>]]
              ELSE <<>>]

\* JSON.parse(saved), for a text that parses: the kind of the value, and the
\* list it denotes when it is an array of threads.
Parse(saved) ==
    [type |-> saved.type,
     list |-> IF saved.type = "array" THEN MapChatsFromJson(saved.items)
              ELSE <<>>]

\* A string is truthy unless it is empty; null is falsy.
Truthy(slot) == slot.type \notin {"absent", "empty"}

(***************************************************************************)
(* The state updates the load effect queues.  React applies them in the    *)
(* re-render that follows the effects of the mount.                        *)
(***************************************************************************)
NoUpdates ==
    [setChats |-> FALSE, type |-> "array", list |-> <<>>,
     setCurrent |-> FALSE, id |-> null]

\* The body of the first effect.
\*   not truthy: nothing.
\*   garbage:    JSON.parse throws, the catch logs.
\*   null:       setChats(null), then parsed.length throws into the catch.
\*   number, object: setChats(parsed); parsed.length is undefined.
\*   string:     setChats(parsed); parsed[0].id is undefined.
\*   array:      setChats(parsed); the head's id when there is one.
Load(saved) ==
    IF ~Truthy(saved) \/ saved.type = "garbage" THEN NoUpdates
    ELSE LET parsed == Parse(saved)
         IN  [setChats   |-> TRUE,
              type       |-> parsed.type,
              list       |-> parsed.list,
              setCurrent |-> \/ parsed.type = "string"
                             \/ parsed.type = "array" /\ Len(parsed.list) > 0,
              id         |-> IF parsed.type = "array" /\ Len(parsed.list) > 0
                             THEN parsed.list[1].id
                             ELSE null]

\* SaveEffect with a slip: the empty list is never written.
SaveEffectOnlyNonEmpty(list, slot) ==
    IF Len(list) > 0 THEN Stringify(list) ELSE slot

\* The body of the second effect: what the slot holds after it has run
\* with `list` as the rendered chats.
SaveEffect(list, slot) ==
    IF Len(list) > 0 \/ (Len(list) = 0 /\ Truthy(slot))
    THEN Stringify(list)
    ELSE slot

(***************************************************************************)
(* What the slot may hold when the page is opened.                         *)
(***************************************************************************)
\* A thread saved by an earlier session: created at time 0, with a
\* translated message.
StoredChat ==
    [id        |-> ToString(0),
     title     |-> <<"H", "i">> \o Ellipsis,
     messages  |-> << [id |-> ToString(0), role |-> "user",
                       text |-> <<"H", "i">>,
                       langLabel |-> "English", langCode |-> "en-US"],
                      [id |-> ToString(1), role |-> "assistant",
                       text |-> <<"B", "o", "n">>,
                       langLabel |-> "Francais", langCode |-> "fr-FR"] >>,
     createdAt |-> 0]

BootSlots ==
    { Slot(t, <<>>) :
        t \in {"absent", "empty", "garbage", "null", "number", "object",
               "string"} }
    \cup { Stringify(<<>>), Stringify(<<StoredChat>>) }

(***************************************************************************)
(* State.                                                                  *)
(***************************************************************************)
VARIABLES
    now,            \* the value Date.now() returns
    storage,        \* localStorage's slot "translation-chats"
    chats,          \* useState<ChatSession[]>([])
    chatsType,      \* the kind of value held in chats: "array", unless the
                    \* load effect has put a value of another kind there
    currentChatId,  \* useState<string | null>(null)
    inputText,      \* useState("")
    isTranslating,  \* useState(false)
    sourceLang,     \* useState("en-US")
    targetLang,     \* useState("fr-FR")
    inflight,       \* the handleTranslate calls suspended on their fetch,
                    \* each with the request it sent and what it captured
    phase,          \* "load", "save", "commit": the steps of the mount;
                    \* "ready": handlers run; "crashed": a render threw
    queued,         \* the state updates queued by the load effect
    bootSlot        \* what the slot held when the page was opened, kept
                    \* until the mount is over

\* Voice input.
VARIABLES
    isListening,    \* useState(false)
    recognitionRef, \* useRef(null): 0, or the number of the session held
    sessions,       \* the SpeechRecognition objects that were started
    speechSupported \* whether the window has a SpeechRecognition

\* The translation endpoint, for one request.
VARIABLES
    request,        \* the POST request's body
    serverPc,       \* "idle", "received", "awaiting", "responded"
    upstream,       \* the requests issued to the translation service
    responses       \* the responses sent for the request

pageVars ==
    <<now, storage, chats, chatsType, currentChatId, inputText,
      isTranslating, sourceLang, targetLang, inflight, phase, queued,
      bootSlot>>

speechVars == <<isListening, recognitionRef, sessions, speechSupported>>

serverVars == <<request, serverPc, upstream, responses>>

vars == <<pageVars, speechVars, serverVars>>

\* No voice input is going on, and the window can do voice input.
SpeechIdle ==
    /\ isListening = FALSE
    /\ recognitionRef = 0
    /\ sessions = <<>>
    /\ speechSupported = TRUE

\* No request has reached the endpoint.
ServerIdle ==
    /\ request = <<>>
    /\ serverPc = "idle"
    /\ upstream = <<>>
    /\ responses = <<>>

\* The state hooks' initial values, before any effect has run.  The clock
\* starts after the times of the stored session.
Init ==
    /\ now = 2
    /\ storage \in BootSlots
    /\ chats = <<>>
    /\ chatsType = "array"
    /\ currentChatId = null
    /\ inputText = <<>>
    /\ isTranslating = FALSE
    /\ sourceLang = "en-US"
    /\ targetLang = "fr-FR"
    /\ inflight = <<>>
    /\ phase = "load"
    /\ queued = NoUpdates
    /\ bootSlot = storage
    /\ SpeechIdle
    /\ ServerIdle

(***************************************************************************)
(* Mount: the two effects, then the re-render with the queued updates.     *)
(***************************************************************************)
\* useEffect(() => { ...getItem... }, [])
LoadEffect ==
    /\ phase = "load"
    /\ queued' = Load(storage)
    /\ phase' = "save"
    /\ UNCHANGED <<now, storage, chats, chatsType, currentChatId, inputText,
                   isTranslating, sourceLang, targetLang, inflight, bootSlot>>
    /\ UNCHANGED <<speechVars, serverVars>>

\* useEffect(() => { ...setItem... }, [chats]) as it runs on mount: with the
\* chats of the first render, the queued updates not yet applied.
SaveEffectOnMount ==
    /\ phase = "save"
    /\ storage' = SaveEffect(chats, storage)
    /\ phase' = "commit"
    /\ UNCHANGED <<now, chats, chatsType, currentChatId, inputText,
                   isTranslating, sourceLang, targetLang, inflight, queued,
                   bootSlot>>
    /\ UNCHANGED <<speechVars, serverVars>>

\* The re-render.  With nothing queued there is none.  With a value that is
\* no array in chats, the render throws at chats.find (getCurrentChat) and
\* the page is gone.  Otherwise chats has changed and the save effect runs.
CommitLoad ==
    /\ phase = "commit"
    /\ queued' = NoUpdates
    /\ IF ~queued.setChats
       THEN /\ phase' = "ready"
            /\ UNCHANGED <<storage, chats, chatsType, currentChatId>>
       ELSE IF queued.type # "array"
       THEN /\ phase' = "crashed"
            /\ chatsType' = queued.type
            /\ UNCHANGED <<storage, chats, currentChatId>>
       ELSE /\ phase' = "ready"
            /\ chats' = queued.list
            /\ currentChatId' =
                   IF queued.setCurrent THEN queued.id ELSE currentChatId
            /\ storage' = SaveEffect(queued.list, storage)
            /\ UNCHANGED chatsType
    /\ bootSlot' = Slot("absent", <<>>)
    /\ UNCHANGED <<now, inputText, isTranslating, sourceLang, targetLang,
                   inflight>>
    /\ UNCHANGED <<speechVars, serverVars>>

(***************************************************************************)
(* Thread list helpers.                                                    *)
(***************************************************************************)
\* chats.filter(c => c.id !== id)
RECURSIVE FilterOut(_, _)
FilterOut(list, id) ==
    IF list = <<>> THEN <<>>
    ELSE (IF Head(list).id # id THEN <<Head(list)>> ELSE <<>>)
         \o FilterOut(Tail(list), id)

\* The sequence without its k-th element.
RemoveAt(seq, k) == SubSeq(seq, 1, k - 1) \o SubSeq(seq, k + 1, Len(seq))

\* The threads of the list that carry this id.
WithId(list, id) == {i \in 1..Len(list) : list[i].id = id}

\* The number of messages in the list.
RECURSIVE CountMessages(_)
CountMessages(list) ==
    IF list = <<>> THEN 0
    ELSE Len(Head(list).messages) + CountMessages(Tail(list))

\* The number of messages the suspended calls will append to the list.
RECURSIVE PendingAppendsFrom(_, _)
PendingAppendsFrom(list, k) ==
    IF k > Len(inflight) THEN 0
    ELSE Cardinality(WithId(list, inflight[k].activeChatId))
         + PendingAppendsFrom(list, k + 1)

PendingAppends(list) == PendingAppendsFrom(list, 1)

\* createNewChat with a slip: the check for an empty head is missing.
createNewChatAlways(list, t) ==
    [chats   |-> <<[id |-> ToString(t), title |-> NewTitle,
                    messages |-> <<>>, createdAt |-> t]>> \o list,
     id      |-> ToString(t),
     created |-> TRUE]

\* createNewChat, as a function of the chats it sees and of the clock:
\* the list it leaves, the id it returns and makes current, and whether it
\* called setChats.
createNewChat(list, t) ==
    IF Len(list) > 0 /\ Len(list[1].messages) = 0
    THEN [chats |-> list, id |-> list[1].id, created |-> FALSE]
    ELSE LET newChat == [id        |-> ToString(t),
                         title     |-> NewTitle,
                         messages  |-> <<>>,
                         createdAt |-> t]
         IN  [chats |-> <<newChat>> \o list, id |-> newChat.id,
              created |-> TRUE]

\* AfterDelete with a slip: the selection is cleared, not moved.
AfterDeleteClears(cur, id, newChats) ==
    IF cur = id THEN null ELSE cur

\* AfterDelete with a slip: the selection is never touched.
AfterDeleteKeeps(cur, id, newChats) == cur

\* The current chat after deleteChat(id) has left newChats.
AfterDelete(cur, id, newChats) ==
    IF cur = id
    THEN (IF Len(newChats) > 0 THEN newChats[1].id ELSE null)
    ELSE cur

\* prev.map(chat => ...) of the user message: appended to the thread with
\* the id, whose title becomes the text's prefix if it had no message.
AppendUser(prev, activeChatId, userMsg, currentText) ==
    [i \in 1..Len(prev) |->
        IF prev[i].id = activeChatId
        THEN [prev[i] EXCEPT
                !.title = IF Len(prev[i].messages) = 0
                          THEN Slice0(currentText, TitleLen) \o Ellipsis
                          ELSE @,
                !.messages = Append(@, userMsg)]
        ELSE prev[i]]

\* AppendMessage with a slip: a thread that is not in the list is put back.
AppendMessageUpsert(prev, activeChatId, msg) ==
    IF \A i \in 1..Len(prev) : prev[i].id # activeChatId
    THEN <<[id |-> activeChatId, title |-> NewTitle, messages |-> <<msg>>,
            createdAt |-> 0]>> \o prev
    ELSE [i \in 1..Len(prev) |->
            IF prev[i].id = activeChatId
            THEN [prev[i] EXCEPT !.messages = Append(@, msg)]
            ELSE prev[i]]

\* AppendMessage with a slip: the message is put before the others.
AppendMessageFirst(prev, activeChatId, msg) ==
    [i \in 1..Len(prev) |->
        IF prev[i].id = activeChatId
        THEN [prev[i] EXCEPT !.messages = <<msg>> \o @]
        ELSE prev[i]]

\* prev.map(chat => ...) of the assistant's or the error message.
AppendMessage(prev, activeChatId, msg) ==
    [i \in 1..Len(prev) |->
        IF prev[i].id = activeChatId
        THEN [prev[i] EXCEPT !.messages = Append(@, msg)]
        ELSE prev[i]]

UserMsg(t, currentText, sourceObj) ==
    [id        |-> ToString(t),
     role      |-> "user",
     text      |-> currentText,
     langLabel |-> sourceObj.label,
     langCode  |-> sourceObj.code]

\* AiMsg with a slip: the target language is read when the response
\* arrives, not taken from the submission.
AiMsgCurrentTarget(t, translatedText, targetObj) ==
    [id        |-> ToString(t + 1),
     role      |-> "assistant",
     text      |-> translatedText,
     langLabel |-> FindLanguage(targetLang, 2).label,
     langCode  |-> FindLanguage(targetLang, 2).code]

AiMsg(t, translatedText, targetObj) ==
    [id        |-> ToString(t + 1),
     role      |-> "assistant",
     text      |-> translatedText,
     langLabel |-> targetObj.label,
     langCode  |-> targetObj.code]

\* ErrorMsg with a slip: the message is labelled as English.
ErrorMsgLanguageLabel(t) ==
    [id        |-> ToString(t + 1),
     role      |-> "assistant",
     text      |-> ErrorText,
     langLabel |-> LANGUAGES[1].label,
     langCode  |-> "en-US"]

ErrorMsg(t) ==
    [id        |-> ToString(t + 1),
     role      |-> "assistant",
     text      |-> ErrorText,
     langLabel |-> "System",
     langCode  |-> "en-US"]

\* The send button's `disabled`.
SendDisabled == Trim(inputText) = <<>> \/ isTranslating

(***************************************************************************)
(* Events.  Each handler runs to its end, or to its await, and the         *)
(* re-render and the save effect that its setChats causes run with it.     *)
(***************************************************************************)
\* A millisecond passes.
Tick ==
    /\ phase = "ready"
    /\ now < MaxNow
    /\ now' = now + 1
    /\ UNCHANGED <<storage, chats, chatsType, currentChatId, inputText,
                   isTranslating, sourceLang, targetLang, inflight, phase,
                   queued, bootSlot>>
    /\ UNCHANGED <<speechVars, serverVars>>

\* textarea onChange
TypeText(text) ==
    /\ phase = "ready"
    /\ inputText' = text
    /\ UNCHANGED <<now, storage, chats, chatsType, currentChatId,
                   isTranslating, sourceLang, targetLang, inflight, phase,
                   queued, bootSlot>>
    /\ UNCHANGED <<speechVars, serverVars>>

\* the source select's onChange
SetSourceLang(code) ==
    /\ phase = "ready"
    /\ sourceLang' = code
    /\ UNCHANGED <<now, storage, chats, chatsType, currentChatId, inputText,
                   isTranslating, targetLang, inflight, phase, queued,
                   bootSlot>>
    /\ UNCHANGED <<speechVars, serverVars>>

\* the target select's onChange
SetTargetLang(code) ==
    /\ phase = "ready"
    /\ targetLang' = code
    /\ UNCHANGED <<now, storage, chats, chatsType, currentChatId, inputText,
                   isTranslating, sourceLang, inflight, phase, queued,
                   bootSlot>>
    /\ UNCHANGED <<speechVars, serverVars>>

\* onClick={createNewChat}, of either button
NewChatClick ==
    /\ phase = "ready"
    /\ LET r == createNewChat(chats, now)
       IN  /\ r.created => Len(chats) < MaxChats
           /\ chats' = r.chats
           /\ currentChatId' = r.id
           /\ storage' = IF r.created THEN SaveEffect(r.chats, storage)
                         ELSE storage
    /\ UNCHANGED <<now, chatsType, inputText, isTranslating, sourceLang,
                   targetLang, inflight, phase, queued, bootSlot>>
    /\ UNCHANGED <<speechVars, serverVars>>

\* a thread row's onClick
SelectChat(i) ==
    /\ phase = "ready"
    /\ i \in 1..Len(chats)
    /\ currentChatId' = chats[i].id
    /\ UNCHANGED <<now, storage, chats, chatsType, inputText, isTranslating,
                   sourceLang, targetLang, inflight, phase, queued, bootSlot>>
    /\ UNCHANGED <<speechVars, serverVars>>

\* deleteChat(chat.id, e), from the delete button of row i
DeleteChat(i) ==
    /\ phase = "ready"
    /\ i \in 1..Len(chats)
    /\ LET id == chats[i].id
           newChats == FilterOut(chats, id)
       IN  /\ chats' = newChats
           /\ currentChatId' = AfterDelete(currentChatId, id, newChats)
           /\ storage' = SaveEffect(newChats, storage)
    /\ UNCHANGED <<now, chatsType, inputText, isTranslating, sourceLang,
                   targetLang, inflight, phase, queued, bootSlot>>
    /\ UNCHANGED <<speechVars, serverVars>>

\* handleTranslate up to its await, past the check of the text: the
\* implicit createNewChat, the user message, the request.
Submit ==
    /\ Trim(inputText) # <<>>
    /\ LET r == createNewChat(chats, now)
           implicit == currentChatId = null
           activeChatId == IF implicit THEN r.id ELSE currentChatId
           prev == IF implicit THEN r.chats ELSE chats
           currentText == inputText
           sourceObj == FindLanguage(sourceLang, 1)
           targetObj == FindLanguage(targetLang, 2)
           userMsg == UserMsg(now, currentText, sourceObj)
           newChats == AppendUser(prev, activeChatId, userMsg, currentText)
       IN  /\ Len(inflight) < MaxPending
           /\ Len(prev) <= MaxChats
           /\ CountMessages(prev) + PendingAppends(prev)
                  + 2 * Cardinality(WithId(prev, activeChatId)) <= MaxMsgs
           /\ chats' = newChats
           /\ currentChatId' = activeChatId
           /\ inflight' = Append(inflight,
                  [activeChatId |-> activeChatId,
                   targetObj    |-> targetObj,
                   body         |-> [text       |-> currentText,
                                     targetLang |-> targetLang,
                                     sourceLang |-> sourceLang]])
           /\ storage' = SaveEffect(newChats, storage)
    /\ inputText' = <<>>
    /\ isTranslating' = TRUE
    /\ UNCHANGED <<now, chatsType, sourceLang, targetLang, phase, queued,
                   bootSlot>>
    /\ UNCHANGED <<speechVars, serverVars>>

\* onClick={handleTranslate}: the button takes clicks unless disabled.
SendClick ==
    /\ phase = "ready"
    /\ ~SendDisabled
    /\ Submit

\* onKeyDown with Enter and no shift, the text passing the check.
EnterKey ==
    /\ phase = "ready"
    /\ Submit

\* onKeyDown with Enter and no shift, the text empty or white space:
\* handleTranslate returns at once.
EnterKeyBlank ==
    /\ phase = "ready"
    /\ Trim(inputText) = <<>>
    /\ UNCHANGED vars

\* The fetch of the k-th suspended call succeeds with translatedText: the
\* try block's remainder, then finally.
FetchOk(k, translatedText) ==
    /\ phase = "ready"
    /\ k \in 1..Len(inflight)
    /\ LET call == inflight[k]
           aiMsg == AiMsg(now, translatedText, call.targetObj)
           newChats == AppendMessage(chats, call.activeChatId, aiMsg)
       IN  /\ chats' = newChats
           /\ storage' = SaveEffect(newChats, storage)
    /\ inflight' = RemoveAt(inflight, k)
    /\ isTranslating' = FALSE
    /\ UNCHANGED <<now, chatsType, currentChatId, inputText, sourceLang,
                   targetLang, phase, queued, bootSlot>>
    /\ UNCHANGED <<speechVars, serverVars>>

\* The fetch of the k-th suspended call fails: catch, then finally.
FetchFail(k, why) ==
    /\ phase = "ready"
    /\ k \in 1..Len(inflight)
    /\ why \in Failures
    /\ LET call == inflight[k]
           newChats == AppendMessage(chats, call.activeChatId, ErrorMsg(now))
       IN  /\ chats' = newChats
           /\ storage' = SaveEffect(newChats, storage)
    /\ inflight' = RemoveAt(inflight, k)
    /\ isTranslating' = FALSE
    /\ UNCHANGED <<now, chatsType, currentChatId, inputText, sourceLang,
                   targetLang, phase, queued, bootSlot>>
    /\ UNCHANGED <<speechVars, serverVars>>

Next ==
    \/ LoadEffect
    \/ SaveEffectOnMount
    \/ CommitLoad
    \/ Tick
    \/ \E text \in Texts : TypeText(text)
    \/ \E code \in SourceChoices : SetSourceLang(code)
    \/ \E code \in TargetChoices : SetTargetLang(code)
    \/ NewChatClick
    \/ \E i \in 1..MaxChats : SelectChat(i)
    \/ \E i \in 1..MaxChats : DeleteChat(i)
    \/ SendClick
    \/ EnterKey
    \/ EnterKeyBlank
    \/ \E k \in 1..MaxPending, text \in TranslatedTexts : FetchOk(k, text)
    \/ \E k \in 1..MaxPending, why \in Failures : FetchFail(k, why)

Spec == Init /\ [][Next]_vars

(***************************************************************************)
(* Voice input.  A session is a SpeechRecognition object on which start()  *)
(* was called.  Its state:                                                 *)
(*   "starting"  start() was called, onstart has not fired                 *)
(*   "started"   onstart has fired                                         *)
(*   "stopping"  stop() was called on it                                   *)
(*   "failed"    onerror has fired; onend follows                          *)
(*   "ended"     onend has fired                                           *)
(* The browser fires the callbacks when it pleases.                        *)
(***************************************************************************)
\* The sessions one behaviour starts.
MaxSessions == 3

\* What the recognition hears.
Transcripts == { <<"h", "i">> }

\* recognitionRef.current?.stop()
StopSession(list, ref) ==
    IF ref # 0 /\ list[ref].state \in {"starting", "started"}
    THEN [list EXCEPT ![ref].state = "stopping"]
    ELSE list

\* The mic button's onClick.
toggleListening ==
    /\ phase = "ready"
    /\ IF isListening
       THEN /\ sessions' = StopSession(sessions, recognitionRef)
            /\ isListening' = FALSE
            /\ UNCHANGED recognitionRef
       ELSE IF ~speechSupported
       THEN UNCHANGED <<sessions, isListening, recognitionRef>>
       ELSE /\ Len(sessions) < MaxSessions
            /\ sessions' = Append(sessions,
                   [lang |-> sourceLang, state |-> "starting",
                    results |-> 0])
            /\ recognitionRef' = Len(sessions) + 1
            /\ UNCHANGED isListening
    /\ UNCHANGED <<speechSupported, pageVars, serverVars>>

\* recognition.onstart
OnStart(n) ==
    /\ n \in 1..Len(sessions)
    /\ sessions[n].state = "starting"
    /\ sessions' = [sessions EXCEPT ![n].state = "started"]
    /\ isListening' = TRUE
    /\ UNCHANGED <<recognitionRef, speechSupported, pageVars, serverVars>>

\* recognition.onresult: with continuous = false a session has one result.
OnResult(n, transcript) ==
    /\ n \in 1..Len(sessions)
    /\ sessions[n].state \in {"started", "stopping"}
    /\ sessions[n].results = 0
    /\ sessions' = [sessions EXCEPT ![n].results = 1]
    /\ inputText' = IF inputText # <<>>
                    THEN inputText \o <<" ">> \o transcript
                    ELSE transcript
    /\ UNCHANGED <<isListening, recognitionRef, speechSupported, serverVars,
                   now, storage, chats, chatsType, currentChatId,
                   isTranslating, sourceLang, targetLang, inflight, phase,
                   queued, bootSlot>>

\* recognition.onerror
OnError(n) ==
    /\ n \in 1..Len(sessions)
    /\ sessions[n].state \in {"starting", "started", "stopping"}
    /\ sessions' = [sessions EXCEPT ![n].state = "failed"]
    /\ isListening' = FALSE
    /\ UNCHANGED <<recognitionRef, speechSupported, pageVars, serverVars>>

\* recognition.onend
OnEnd(n) ==
    /\ n \in 1..Len(sessions)
    /\ sessions[n].state \in {"started", "stopping", "failed"}
    /\ sessions' = [sessions EXCEPT ![n].state = "ended"]
    /\ isListening' = FALSE
    /\ UNCHANGED <<recognitionRef, speechSupported, pageVars, serverVars>>

\* The page after its mount with nothing stored.
PageMounted ==
    /\ now = 2
    /\ storage = Slot("absent", <<>>)
    /\ chats = <<>>
    /\ chatsType = "array"
    /\ currentChatId = null
    /\ inputText = <<>>
    /\ isTranslating = FALSE
    /\ sourceLang = "en-US"
    /\ targetLang = "fr-FR"
    /\ inflight = <<>>
    /\ phase = "ready"
    /\ queued = NoUpdates
    /\ bootSlot = Slot("absent", <<>>)

\* The mounted page in a window with or without voice input.
SpeechInit ==
    /\ PageMounted
    /\ isListening = FALSE
    /\ recognitionRef = 0
    /\ sessions = <<>>
    /\ speechSupported \in BOOLEAN
    /\ ServerIdle

SpeechNext ==
    \/ toggleListening
    \/ \E n \in 1..MaxSessions : OnStart(n)
    \/ \E n \in 1..MaxSessions, transcript \in Transcripts :
          OnResult(n, transcript)
    \/ \E n \in 1..MaxSessions : OnError(n)
    \/ \E n \in 1..MaxSessions : OnEnd(n)
    \/ \E code \in SourceChoices : SetSourceLang(code)

SpecSpeech == SpeechInit /\ [][SpeechNext]_vars

(***************************************************************************)
(* The translation endpoint: POST, for one request.  A field of the body   *)
(* is a string, as its characters, or is not there.                        *)
(***************************************************************************)
Str(chars) == [str |-> chars]

undefined == [undefined |-> TRUE]

\* !v, for a string or undefined.
Falsy(v) == v = undefined \/ v = Str(<<>>)

\* The characters of the locale codes that requests carry.
auto == <<"a", "u", "t", "o">>
enUS == <<"e", "n", "-", "U", "S">>
enGB == <<"e", "n", "-", "G", "B">>
esES == <<"e", "s", "-", "E", "S">>
frFR == <<"f", "r", "-", "F", "R">>
deDE == <<"d", "e", "-", "D", "E">>
zhCN == <<"z", "h", "-", "C", "N">>

\* The bodies of the requests: every field there or not, empty or not, and
\* a body that is no JSON text.
RequestTexts == { undefined, Str(<<>>), Str(<<"H", "i">>) }

RequestSources ==
    { undefined, Str(<<>>), Str(auto), Str(enUS), Str(enGB), Str(esES) }

RequestTargets == { undefined, Str(<<>>), Str(frFR), Str(deDE), Str(zhCN) }

Requests ==
    [json : {TRUE}, text : RequestTexts, targetLang : RequestTargets,
     sourceLang : RequestSources]
    \cup { [json |-> FALSE, text |-> undefined, targetLang |-> undefined,
            sourceLang |-> undefined] }

\* What comes back from the translation service: a body with its
\* responseStatus, or nothing (the get rejects: network, non-2xx).
Replies ==
    { [arrived |-> TRUE, responseStatus |-> 200,
       translatedText |-> <<"B", "o", "n">>],
      [arrived |-> TRUE, responseStatus |-> 403, translatedText |-> <<>>],
      [arrived |-> FALSE, responseStatus |-> 0, translatedText |-> <<>>] }

\* s.split("-")[0]
RECURSIVE SplitFirst(_)
SplitFirst(s) ==
    IF s = <<>> \/ Head(s) = "-" THEN <<>>
    ELSE <<Head(s)>> \o SplitFirst(Tail(s))

\* SourceOf with a slip: "auto" is reduced like any code.
SourceOfNoDefault(code) == SplitFirst(code)

\* sourceLang === "auto" ? "en" : sourceLang.split("-")[0]
SourceOf(code) ==
    IF code = auto THEN <<"e", "n">> ELSE SplitFirst(code)

\* `${source}|${target}`
LangPair(sourceCode, targetCode) ==
    SourceOf(sourceCode) \o <<"|">> \o SplitFirst(targetCode)

BadRequest == [status |-> 400, body |-> [error |-> "Missing required fields"]]

ServerError ==
    [status |-> 500,
     body |-> [error |-> "Translation failed. The free API might be busy."]]

Ok(translatedText) ==
    [status |-> 200, body |-> [translatedText |-> translatedText]]

\* POST up to its return or to the await of axios.get.  req.json() throws
\* on a body that is no JSON, and sourceLang.split throws on a sourceLang
\* that is not there: both end in the catch.
PostReceive ==
    /\ serverPc = "received"
    /\ IF ~request.json
       THEN /\ responses' = Append(responses, ServerError)
            /\ serverPc' = "responded"
            /\ UNCHANGED upstream
       ELSE IF Falsy(request.text) \/ Falsy(request.targetLang)
       THEN /\ responses' = Append(responses, BadRequest)
            /\ serverPc' = "responded"
            /\ UNCHANGED upstream
       ELSE IF request.sourceLang = undefined
       THEN /\ responses' = Append(responses, ServerError)
            /\ serverPc' = "responded"
            /\ UNCHANGED upstream
       ELSE /\ upstream' = Append(upstream,
                   [q        |-> request.text.str,
                    langpair |-> LangPair(request.sourceLang.str,
                                          request.targetLang.str),
                    reply    |-> <<>>])
            /\ serverPc' = "awaiting"
            /\ UNCHANGED responses
    /\ UNCHANGED <<request, pageVars, speechVars>>

\* The await of axios.get is over: the rest of the try, or the catch.
UpstreamReply(reply) ==
    /\ serverPc = "awaiting"
    /\ upstream' = [upstream EXCEPT ![Len(upstream)].reply = <<reply>>]
    /\ responses' = Append(responses,
           IF reply.arrived /\ reply.responseStatus = 200
           THEN Ok(reply.translatedText)
           ELSE ServerError)
    /\ serverPc' = "responded"
    /\ UNCHANGED <<request, pageVars, speechVars>>

\* A request has reached the endpoint.
ServerInit ==
    /\ PageMounted
    /\ SpeechIdle
    /\ request \in Requests
    /\ serverPc = "received"
    /\ upstream = <<>>
    /\ responses = <<>>

ServerNext ==
    \/ PostReceive
    \/ \E reply \in Replies : UpstreamReply(reply)

SpecServer == ServerInit /\ [][ServerNext]_vars

(***************************************************************************)
(* Properties.                                                             *)
(***************************************************************************)
\* The ids of the threads in a list.
IdsOf(list) == {list[i].id : i \in 1..Len(list)}

\* The table's entry for a language code.
EntryOf(code) ==
    CHOOSE l \in {LANGUAGES[i] : i \in 1..Len(LANGUAGES)} : l.code = code

\* The ids the page gives to what it creates in this session.
SessionIds == {ToString(t) : t \in 2..(MaxNow + 1)}

\* C1: single-in-flight guard.  In every reachable state at most one
\* translation request is pending (so a submission made while one is
\* pending, by the button or by the Enter key, has issued none).
C1_SingleInFlight == Len(inflight) <= 1

\* C2: message ordering.  In every thread each user message that is not the
\* last message is immediately followed by an assistant message, the
\* response to it: no second user message comes before that response.
C2_ResponseFollowsUserMessage ==
    \A i \in 1..Len(chats) :
        \A j \in 1..(Len(chats[i].messages) - 1) :
            chats[i].messages[j].role = "user"
                => chats[i].messages[j + 1].role = "assistant"

\* C3: persistence follows every mutation.  Every step that changes the
\* thread list (create, delete, append) leaves in the slot the
\* serialization of exactly the new list, an empty list included; and a
\* slot that holds something is never absent afterwards.
C3_PersistenceFollowsMutation ==
    [][ /\ chats' # chats => storage' = Stringify(chats')
        /\ storage.type # "absent" => storage'.type # "absent" ]_vars

\* C3 witness: the last thread was deleted while its request was in flight,
\* and the slot holds the empty list.
C3_Witness ==
    /\ phase = "ready"
    /\ chats = <<>>
    /\ inflight # <<>>
    /\ storage = Slot("array", <<>>)

\* C4: load tolerates malformed data.  When the slot held, at startup, a
\* text that is not the serialization of a thread list (one that does not
\* parse, or one that parses to something else), the mount ends with the
\* page running, the thread list empty and no thread active.
C4_LoadToleratesMalformed ==
    [][ (/\ phase = "commit"
         /\ bootSlot.type \in {"garbage", "null", "number", "object",
                               "string"})
        => (/\ phase' = "ready"
            /\ chatsType' = "array"
            /\ chats' = <<>>
            /\ currentChatId' = null) ]_vars

\* C5: createNewChat does not accumulate empty threads.  A click on New
\* Translation while the head of the list has no message leaves the list
\* as it is and makes the head the active thread; any other click prepends
\* exactly one thread, with no message, and makes it the active thread.
C5_CreateNewChat ==
    [][ NewChatClick =>
          IF chats # <<>> /\ Len(chats[1].messages) = 0
          THEN /\ chats' = chats
               /\ currentChatId' = chats[1].id
          ELSE /\ Len(chats') = Len(chats) + 1
               /\ Tail(chats') = chats
               /\ chats'[1].messages = <<>>
               /\ currentChatId' = chats'[1].id ]_vars

\* C5 witness: createNewChat has prepended an empty thread to a thread with
\* messages and made it active; a further call finds the head empty.
C5_Witness ==
    /\ Len(chats) = 2
    /\ chats[1].messages = <<>>
    /\ chats[2].messages # <<>>
    /\ chats[1].id \in SessionIds
    /\ currentChatId = chats[1].id

C8_FailureOutcome ==
    [][ \A k \in 1..MaxPending : \A why \in Failures :
          FetchFail(k, why) =>
            /\ Len(chats') = Len(chats)
            /\ \A i \in 1..Len(chats) :
                  chats[i].id = inflight[k].activeChatId =>
                    /\ Len(chats'[i].messages) = Len(chats[i].messages) + 1
                    /\ SubSeq(chats'[i].messages, 1, Len(chats[i].messages))
                           = chats[i].messages
                    /\ LET m == chats'[i].messages[Len(chats'[i].messages)]
                       IN  /\ m.role = "assistant"
                           /\ m.text = ErrorText
                           /\ m.langLabel = "System"
                           /\ \A j \in 1..Len(LANGUAGES) :
                                  LANGUAGES[j].label # m.langLabel
            /\ inflight' = RemoveAt(inflight, k) ]_vars

\* C8 witness: a thread ends with the fallback message.
C8_Witness ==
    \E i \in 1..Len(chats) :
        /\ chats[i].messages # <<>>
        /\ chats[i].messages[Len(chats[i].messages)].langLabel = "System"

\* C9: success outcome.  An accepted submission appends to the thread it is
\* made in exactly the user message: the input text and the label of the
\* source language selected then.  When its call succeeds, that thread
\* gains exactly the assistant message: the returned text and the label and
\* code of the target language that was selected at the submission.
C9_SuccessOutcome ==
    [][ /\ EnterKey =>
            LET shift == Len(chats') - Len(chats)
            IN  \A i \in 1..Len(chats') :
                  chats'[i].id = currentChatId' =>
                    LET before == IF i > shift
                                  THEN chats[i - shift].messages
                                  ELSE <<>>
                        m == chats'[i].messages[Len(chats'[i].messages)]
                    IN  /\ chats'[i].messages = Append(before, m)
                        /\ m.role = "user"
                        /\ m.text = inputText
                        /\ m.langLabel = EntryOf(sourceLang).label
        /\ \A k \in 1..MaxPending : \A text \in TranslatedTexts :
            FetchOk(k, text) =>
              \A i \in 1..Len(chats) :
                chats[i].id = inflight[k].activeChatId =>
                  LET m == chats'[i].messages[Len(chats'[i].messages)]
                      target == EntryOf(inflight[k].body.targetLang)
                  IN  /\ chats'[i].messages = Append(chats[i].messages, m)
                      /\ m.role = "assistant"
                      /\ m.text = text
                      /\ m.langLabel = target.label
                      /\ m.langCode = target.code ]_vars

\* C9 witness: a thread of this session holds a user message labelled
\* Spanish and then its translation, labelled French, while the target
\* select reads German: the labels are those of the submission.
C9_Witness ==
    /\ targetLang = "de-DE"
    /\ \E i \in 1..Len(chats) :
        /\ Len(chats[i].messages) >= 2
        /\ chats[i].messages[1].role = "user"
        /\ chats[i].messages[1].id \in SessionIds
        /\ chats[i].messages[1].text = LongText
        /\ chats[i].messages[1].langLabel = "Espanol"
        /\ chats[i].messages[2].role = "assistant"
        /\ chats[i].messages[2].text \in TranslatedTexts
        /\ chats[i].messages[2].langLabel = "Francais"
        /\ chats[i].messages[2].langCode = "fr-FR"

\* C10: the busy flag.  The flag does not read idle while a request is
\* still pending.
C10_BusyWhilePending == inflight # <<>> => isTranslating

\* C11: message ids are unique within their thread.  In every reachable
\* state no two messages of one thread carry the same id, whatever the
\* times at which the submissions and the responses happen.
C11_MessageIdsUnique ==
    \A i \in 1..Len(chats) :
        \A j, k \in 1..Len(chats[i].messages) :
            chats[i].messages[j].id = chats[i].messages[k].id => j = k

\* C17: thread ids are unique in the store.  In every reachable state no
\* two threads of the list carry the same id, whatever the times at which
\* the threads are created.
C17_ThreadIdsUnique ==
    \A i, j \in 1..Len(chats) : chats[i].id = chats[j].id => i = j

\* s is an initial part of t.
IsPrefix(s, t) == Len(s) <= Len(t) /\ s = SubSeq(t, 1, Len(s))

\* The valid thread lists among the boot slots.
StoredLists == { <<>>, <<StoredChat>> }

\* C13: persistence round trip.  When the slot holds a valid thread list
\* as the page is opened, the mount (the load, then the save that the load
\* triggers) ends with that list in memory and with the slot again holding
\* that list.
C13_RoundTrip ==
    [][ (CommitLoad /\ bootSlot.type = "array") =>
            \E list \in StoredLists :
                /\ bootSlot = Stringify(list)
                /\ phase' = "ready"
                /\ chats' = list
                /\ storage' = bootSlot ]_vars

\* C13 witness: the mount is over, the stored thread with its two messages
\* is in memory and the slot holds it as before.
C13_Witness ==
    /\ phase = "ready"
    /\ now = 2
    /\ inflight = <<>>
    /\ chats = <<StoredChat>>
    /\ storage = Stringify(<<StoredChat>>)

\* C14: messages are append-only.  On every step the threads that stay in
\* the list stay in their order, and the messages a thread had are an
\* initial part of the messages it has afterwards: a step that does not
\* shorten the list extends threads in place (new threads come in at the
\* head), and a step that shortens it leaves the remaining threads as
\* they were.
C14_AppendOnly ==
    [][ LET shift == Len(chats') - Len(chats)
        IN  IF shift >= 0
            THEN \A i \in 1..Len(chats) :
                    /\ chats'[i + shift].id = chats[i].id
                    /\ IsPrefix(chats[i].messages, chats'[i + shift].messages)
            ELSE \A j \in 1..Len(chats') :
                    \E i \in j..Len(chats) : chats'[j] = chats[i] ]_vars

\* C14 witness: the stored thread has gained a user message and its
\* response behind the two messages it was loaded with.
C14_Witness ==
    \E i \in 1..Len(chats) :
        /\ chats[i].id = StoredChat.id
        /\ Len(chats[i].messages) = 4
        /\ SubSeq(chats[i].messages, 1, 2) = StoredChat.messages
        /\ chats[i].messages[3].role = "user"
        /\ chats[i].messages[4].role = "assistant"

\* C19: the active selection is consistent.  In every reachable state the
\* active id is none or the id of a thread of the list, and it is none only
\* when the list is empty.
C19_ActiveSelection ==
    /\ currentChatId # null => currentChatId \in IdsOf(chats)
    /\ currentChatId = null => chats = <<>>

\* C19 witness: of two threads the active one was deleted while its
\* request was pending, and the other one is active now.
C19_Witness ==
    /\ Len(chats) = 1
    /\ currentChatId = chats[1].id
    /\ \E k \in 1..Len(inflight) :
        /\ inflight[k].activeChatId # currentChatId
        /\ inflight[k].activeChatId \in SessionIds

\* C15: the title rule.  A title is never empty.  A thread without
\* messages has the placeholder title; a thread with messages has a user
\* message first, and its title is the first 30 characters of that
\* message's text followed by "...", whatever was appended afterwards.
C15_TitleRule ==
    \A i \in 1..Len(chats) :
        /\ chats[i].title # <<>>
        /\ IF chats[i].messages = <<>>
           THEN chats[i].title = NewTitle
           ELSE /\ chats[i].messages[1].role = "user"
                /\ chats[i].title =
                       Slice0(chats[i].messages[1].text, TitleLen)
                           \o Ellipsis

\* The threads that a step changes, by their position.
ChangedThreads == {i \in 1..Len(chats) : chats'[i] # chats[i]}

\* C20: a response goes to the originating thread only.  Whatever was
\* selected, created or chosen while the request was pending, the step in
\* which its response arrives leaves the active selection and the number
\* of threads as they were and changes at most one thread: one that
\* carries the id captured at the submission, which gains one assistant
\* message, labelled with the target language captured at the submission
\* when the call succeeded.
C20_ResponseToOriginOnly ==
    [][ \A k \in 1..MaxPending :
          ((\E text \in TranslatedTexts : FetchOk(k, text))
              \/ (\E why \in Failures : FetchFail(k, why))) =>
            /\ currentChatId' = currentChatId
            /\ Len(chats') = Len(chats)
            /\ Cardinality(ChangedThreads) <= 1
            /\ \A i \in ChangedThreads :
                LET m == chats'[i].messages[Len(chats'[i].messages)]
                IN  /\ chats[i].id = inflight[k].activeChatId
                    /\ chats'[i] =
                         [chats[i] EXCEPT !.messages = Append(@, m)]
                    /\ m.role = "assistant"
                    /\ m.text \in TranslatedTexts =>
                         /\ m.langLabel =
                              EntryOf(inflight[k].body.targetLang).label
                         /\ m.langCode = inflight[k].body.targetLang ]_vars

\* The sessions that were started and have not ended.
LiveSessions == {n \in 1..Len(sessions) : sessions[n].state # "ended"}

\* C16: speech recognition is capped at one session.  In every reachable
\* state at most one recognition session has been started and has not yet
\* ended, whatever way the calls of toggleListening interleave with the
\* sessions' callbacks.
C16_OneSession == Cardinality(LiveSessions) <= 1

\* The request passes the endpoint's validation.
PassesValidation ==
    request.json /\ ~Falsy(request.text) /\ ~Falsy(request.targetLang)

\* C12: the endpoint's outcomes.  A request never has more than one
\* response, and once it is answered it has one.  For a body that is JSON:
\* if text or targetLang is missing or empty the response is 400 and no
\* upstream request was issued; otherwise exactly one upstream request was
\* issued, and the response is 200 with the translated text when the
\* upstream reported status 200 and 500 when its call failed or reported
\* another status.
C12_EndpointOutcomes ==
    /\ Len(responses) <= 1
    /\ serverPc = "responded" =>
        /\ Len(responses) = 1
        /\ request.json /\ ~PassesValidation =>
            /\ responses[1].status = 400
            /\ upstream = <<>>
        /\ PassesValidation =>
            /\ Len(upstream) = 1
            /\ Len(upstream[1].reply) = 1
            /\ LET reply == upstream[1].reply[1]
               IN  IF reply.arrived /\ reply.responseStatus = 200
                   THEN responses[1] = Ok(reply.translatedText)
                   ELSE responses[1].status = 500

\* The primary subtags of the locale codes, as a table.
PrimarySubtag ==
    { <<enUS, <<"e", "n">> >>, <<enGB, <<"e", "n">> >>,
      <<esES, <<"e", "s">> >>, <<frFR, <<"f", "r">> >>,
      <<deDE, <<"d", "e">> >>, <<zhCN, <<"z", "h">> >> }

\* C18: locale reduction.  For every request that carries a source and a
\* target locale code and for which an upstream request is issued, the
\* langpair sent is the source's primary subtag, "|", the target's primary
\* subtag; for the source "auto" the first part is "en", and "auto" is
\* never the first part.
C18_LocaleReduction ==
    \A u \in 1..Len(upstream) :
        \A t \in PrimarySubtag :
            request.targetLang = Str(t[1]) =>
                /\ \A src \in PrimarySubtag :
                     request.sourceLang = Str(src[1]) =>
                        upstream[u].langpair = src[2] \o <<"|">> \o t[2]
                /\ request.sourceLang = Str(auto) =>
                     upstream[u].langpair = <<"e", "n", "|">> \o t[2]
                /\ ~IsPrefix(auto, upstream[u].langpair)

\* C18 witness: a request from "auto" to "fr-FR" was sent on as "en|fr",
\* and answered.
C18_Witness ==
    /\ request.sourceLang = Str(auto)
    /\ request.targetLang = Str(frFR)
    /\ serverPc = "responded"
    /\ Len(upstream) = 1
    /\ upstream[1].langpair = <<"e", "n", "|", "f", "r">>

\* C21: startup never clobbers stored data.  When the slot held a valid
\* list with a thread in it as the page was opened, the slot holds that
\* list in every state of the mount: before the load effect, between the
\* load effect and the save effect, and between the save effect and the
\* re-render.
C21_StartupKeepsSlot ==
    (/\ phase \in {"load", "save", "commit"}
     /\ bootSlot.type = "array"
     /\ bootSlot.items # <<>>)
        => storage = bootSlot

=============================================================================
